---- MODULE Spec2Model ----
(***************************************************************************)
(* A model of the wildlife-api endpoints, in three views:                  *)
(*   Spec      the scoring of app/similarity_tools.py identify_species and *)
(*             app/rerank_with_weights_tool.py rerank_with_weights         *)
(*   SpecPool  the database sessions and connections of these two and of   *)
(*             app/species_tools.py, app/ecoregion_tools.py (db/db.py)     *)
(*   SpecSeed  tools/seed_router.py require_token, get_signed_manifest     *)
(* One request is handled at a time: the database handlers are `async     *)
(* def` with no await, so the event loop runs each of them to completion;  *)
(* get_signed_manifest shares nothing between its calls.                   *)
(*                                                                         *)
(* Floats are fixed-point numbers (unit 1/Scale) plus the IEEE specials    *)
(* NaN and +-Infinity.  The results of np.exp and of the division by the   *)
(* sum are kept symbolically (e^x, e^x / (e^a + e^b + ...)), with the      *)
(* overflow and underflow of a 64-bit double at their real thresholds.     *)
(***************************************************************************)
EXTENDS Integers, Sequences, FiniteSets, TLC

VARIABLES pc, request, top_candidates, i, scored_candidates, response,
          dbLog, expArgs, colorMissing, earlier

\* The same handlers, and the two ecoregion handlers, seen from the
\* database side: which handler is running, what its session or
\* connection holds, its answer, and what finished calls left open.
VARIABLES caller, held, outcome, orphans, strays

scoreVars == <<pc, request, top_candidates, i, scored_candidates, response,
               dbLog, expArgs, colorMissing, earlier>>

poolVars == <<caller, held, outcome, orphans, strays>>

\* tools/seed_router.py: the module's configuration, the request to
\* GET /manifest, the locals of get_signed_manifest and its response.
VARIABLES seedPc, SEED_API_TOKEN, credentials, seedRequest, ver, nameIdx, missing,
          signed_map, seedResponse

seedVars == <<seedPc, SEED_API_TOKEN, credentials, seedRequest, ver, nameIdx, missing,
              signed_map, seedResponse>>

vars == <<scoreVars, poolVars, seedVars>>

\* Longest candidate list a request names (rerank) or asks for (top_n).
MaxCandidates == 2

---------------------------------------------------------------------------
(* Python floats *)

\* Fixed-point unit: the float 0.6 is Fin(600).
Scale == 10 * 100

Fin(n) == [k |-> "fin", v |-> n]
NaN == [k |-> "nan", v |-> 0]
Inf(s) == [k |-> "inf", v |-> s]
\* Python's None where a float is expected (Optional[float]).
NoneVal == [k |-> "none", v |-> 0]

IsFinite(a) == a.k = "fin"

Sign(n) == IF n > 0 THEN 1 ELSE IF n < 0 THEN -1 ELSE 0

\* a * b on floats.
FMul(a, b) ==
    IF a.k = "nan" \/ b.k = "nan" THEN NaN
    ELSE IF a.k = "inf" \/ b.k = "inf"
         THEN IF Sign(a.v) * Sign(b.v) = 0 THEN NaN
              ELSE Inf(Sign(a.v) * Sign(b.v))
         ELSE Fin(Sign(a.v * b.v) * ((Sign(a.v * b.v) * a.v * b.v) \div Scale))

\* a + b on floats.
FAdd(a, b) ==
    IF a.k = "nan" \/ b.k = "nan" THEN NaN
    ELSE IF a.k = "inf" /\ b.k = "inf"
         THEN IF a.v = b.v THEN a ELSE NaN
         ELSE IF a.k = "inf" THEN a
         ELSE IF b.k = "inf" THEN b
         ELSE Fin(a.v + b.v)

\* 1 - distance.
OneMinus(d) ==
    IF d.k = "nan" THEN NaN
    ELSE IF d.k = "inf" THEN Inf(0 - d.v)
    ELSE Fin(Scale - d.v)

\* a > b on floats: every comparison with NaN is false.
FGreater(a, b) ==
    IF a.k = "nan" \/ b.k = "nan" THEN FALSE
    ELSE IF a.k = "inf" THEN a.v = 1 /\ b # a
    ELSE IF b.k = "inf" THEN b.v = -1
    ELSE a.v > b.v

---------------------------------------------------------------------------
(* Embeddings and cosine similarity *)

Dot(a, b) == a[1] * b[1] + a[2] * b[2] + a[3] * b[3] + a[4] * b[4]

\* The integer square root.
ISqrt(n) == CHOOSE r \in 0..n : r * r <= n /\ n < (r + 1) * (r + 1)

\* np.dot(a, b) / (np.linalg.norm(a) * np.linalg.norm(b)); the product of
\* the norms is taken as the square root of the product of the squared
\* norms.  A zero norm gives 0.0 / 0.0, which numpy evaluates to nan.
cosine_similarity(a, b) ==
    LET den == ISqrt(Dot(a, a) * Dot(b, b))
        num == Dot(a, b)
    IN  IF den = 0 THEN NaN
        ELSE Fin(Sign(num) * ((Sign(num) * num * Scale) \div den))

---------------------------------------------------------------------------
(* numpy: exp, sum, element-wise division, argmax *)

\* np.exp overflows to inf above 709.782... and underflows to 0.0 below
\* -745.133... (64-bit doubles).
ExpMaxArg == 709 * Scale + 782
ExpMinArg == 0 - (745 * Scale + 133)

ENaN == [k |-> "nan", v |-> 0, d |-> <<>>]
EInf == [k |-> "inf", v |-> 0, d |-> <<>>]
EZero == [k |-> "zero", v |-> 0, d |-> <<>>]

\* np.exp(x) of one element: the positive double e^x is kept as its
\* exponent x.
NpExp(x) ==
    IF x.k = "nan" THEN ENaN
    ELSE IF x.k = "inf" THEN (IF x.v = 1 THEN EInf ELSE EZero)
    ELSE IF x.v > ExpMaxArg THEN EInf
    ELSE IF x.v < ExpMinArg THEN EZero
    ELSE [k |-> "exp", v |-> x.v, d |-> <<>>]

\* np.exp(scores): element-wise over the list.
NpExpAll(scores) == [j \in 1..Len(scores) |-> NpExp(scores[j])]

IsExp(e) == e.k = "exp"

\* np.sum(exp_scores): nan if any element is nan, else inf if any is inf,
\* else 0.0 if every element is 0.0, else the sum of the positive terms,
\* kept as the list of their exponents.  (A sum of finite terms that
\* itself overflows needs scores within ln(N) of ExpMaxArg; WeightConfigs
\* puts none there.)
NpSum(es) ==
    IF \E j \in 1..Len(es) : es[j].k = "nan" THEN ENaN
    ELSE IF \E j \in 1..Len(es) : es[j].k = "inf" THEN EInf
    ELSE IF \A j \in 1..Len(es) : es[j].k = "zero" THEN EZero
    ELSE LET terms == SelectSeq(es, IsExp)
         IN  [k |-> "sum", v |-> 0, d |-> [j \in 1..Len(terms) |-> terms[j].v]]

MaxOf(xs) == CHOOSE m \in {xs[j] : j \in 1..Len(xs)} :
                 \A j \in 1..Len(xs) : xs[j] <= m

\* exp_scores[j] / np.sum(exp_scores): inf / inf and 0.0 / 0.0 are nan, a
\* finite value over inf is 0.0, and a quotient below the smallest double
\* is 0.0; otherwise the quotient e^v / (e^d[1] + e^d[2] + ...).
NpDiv(e, s) ==
    IF e.k = "nan" \/ s.k = "nan" THEN ENaN
    ELSE IF s.k = "inf" THEN (IF e.k = "inf" THEN ENaN ELSE EZero)
    ELSE IF s.k = "zero" THEN ENaN
    ELSE IF e.k = "zero" THEN EZero
    ELSE IF e.v - MaxOf(s.d) < ExpMinArg THEN EZero
    ELSE [k |-> "ratio", v |-> e.v, d |-> s.d]

\* probs = exp_scores / np.sum(exp_scores), with exp_scores = np.exp(scores).
Softmax(scores) ==
    LET exp_scores == NpExpAll(scores)
        total == NpSum(exp_scores)
    IN  [j \in 1..Len(scores) |-> NpDiv(exp_scores[j], total)]

\* p < q for two elements of probs (one common denominator).
PLess(p, q) ==
    IF p.k = "nan" \/ q.k = "nan" THEN FALSE
    ELSE IF q.k = "zero" THEN FALSE
    ELSE IF p.k = "zero" THEN TRUE
    ELSE p.v < q.v

\* A slip: the last index holding the maximum instead of the first.
NpArgmax_Last(ps) ==
    IF \E j \in 1..Len(ps) : ps[j].k = "nan"
    THEN CHOOSE j \in 1..Len(ps) :
             ps[j].k = "nan" /\ \A h \in (j + 1)..Len(ps) : ps[h].k # "nan"
    ELSE CHOOSE j \in 1..Len(ps) :
             /\ \A h \in 1..Len(ps) : ~PLess(ps[j], ps[h])
             /\ \A h \in (j + 1)..Len(ps) : PLess(ps[h], ps[j])

\* np.argmax(probs): the first nan if there is one, else the first index
\* holding the maximum (1-based here).
NpArgmax(ps) ==
    IF \E j \in 1..Len(ps) : ps[j].k = "nan"
    THEN CHOOSE j \in 1..Len(ps) :
             ps[j].k = "nan" /\ \A h \in 1..(j - 1) : ps[h].k # "nan"
    ELSE CHOOSE j \in 1..Len(ps) :
             /\ \A h \in 1..Len(ps) : ~PLess(ps[j], ps[h])
             /\ \A h \in 1..(j - 1) : PLess(ps[h], ps[j])

---------------------------------------------------------------------------
(* The database: wildlife.species_embeddings rows (SpeciesEmbedding) *)

NoVec == <<>>
ZeroVec == <<0, 0, 0, 0>>
VecQ == <<3, 1, 0, 0>>
VecA == <<3, 0, 1, 0>>
VecB == <<2, -1, 2, 1>>

\* Species identifiers a request or the retrieval can name; "ghost" has
\* no row.
Species == {"elk", "wolf", "deer", "bear", "lynx", "pika", "ghost"}

HasRow(s) == s # "ghost"

\* session.query(SpeciesEmbedding).filter_by(species=s).first()
DbRow(s) ==
    CASE s = "elk"  -> [species |-> s, image_embedding |-> VecA, text_embedding |-> VecB]
      [] s = "wolf" -> [species |-> s, image_embedding |-> VecB, text_embedding |-> VecA]
      [] s = "deer" -> [species |-> s, image_embedding |-> VecQ, text_embedding |-> VecA]
      [] s = "bear" -> [species |-> s, image_embedding |-> VecQ, text_embedding |-> NoVec]
      [] s = "lynx" -> [species |-> s, image_embedding |-> NoVec, text_embedding |-> VecQ]
      [] s = "pika" -> [species |-> s, image_embedding |-> VecA, text_embedding |-> ZeroVec]

\* wildlife.usf_rank_species_candidates: the rows it can return are the
\* species that have an image embedding, each with its cosine distance
\* to the request's embedding.
Retrievable == {s \in Species : HasRow(s) /\ DbRow(s).image_embedding # NoVec}

RankDistance(embedding, s) ==
    LET c == cosine_similarity(embedding, DbRow(s).image_embedding)
    IN  IF c.k = "nan" THEN NaN ELSE Fin(Scale - c.v)

RankRow(embedding, s) == [species |-> s, distance |-> RankDistance(embedding, s)]

\* compute_color_similarity(image_colors, species_colors, vocab): a value
\* in [0, 1], or None (Candidate.color_similarity is Optional[float]).
ColorOutcomes == {NoneVal, Fin(0), Fin(Scale)}

---------------------------------------------------------------------------
(* Requests *)

SeqsUpTo(S, n) == UNION {[1..m -> S] : m \in 0..n}

Embeddings == {VecQ, ZeroVec}

W(a, b, c) == [image_weight |-> Fin(a), text_weight |-> Fin(b), color_weight |-> Fin(c)]

\* image_weight, text_weight, color_weight: the defaults (0.6, 0.4, 0.0)
\* and other floats a caller may send; nothing restricts them.
WeightConfigs ==
    { W(600, 400, 0), W(0, 1000, 0), W(0, 0, 0), W(600, 400, 300),
      W(-600, 400, 0), W(1000 * Scale, 0, 0), W(-1000 * Scale, 0, 0) }

IdentificationRequest ==
    { [kind |-> "identify", embedding |-> e, top_candidates |-> <<>>, top_n |-> n,
       image_weight |-> w.image_weight, text_weight |-> w.text_weight,
       color_weight |-> w.color_weight] :
      e \in Embeddings, n \in 1..MaxCandidates, w \in WeightConfigs }

\* RerankRequest has no color_weight and no top_n.
RerankRequest ==
    { [kind |-> "rerank", embedding |-> e, top_candidates |-> ids, top_n |-> 0,
       image_weight |-> w.image_weight, text_weight |-> w.text_weight,
       color_weight |-> NoneVal] :
      e \in Embeddings, ids \in SeqsUpTo(Species, MaxCandidates),
      w \in {c \in WeightConfigs : c.color_weight = Fin(0)} }

NoRequest ==
    [kind |-> "none", embedding |-> NoVec, top_candidates |-> <<>>, top_n |-> 0,
     image_weight |-> NoneVal, text_weight |-> NoneVal, color_weight |-> NoneVal]

---------------------------------------------------------------------------
(* Responses *)

NoCandidate ==
    [species |-> "", image_similarity |-> NoneVal, text_similarity |-> NoneVal,
     color_similarity |-> NoneVal, combined_score |-> NoneVal, probability |-> ENaN]

NoResponse ==
    [status |-> 0, detail |-> "", raised |-> "", top_candidates |-> <<>>,
     best_match |-> NoCandidate, best_idx |-> 0]

\* An HTTPException(status_code, detail) reaching the client, or an
\* unhandled exception (FastAPI answers 500); `raised` is the exception
\* first raised in the handler.
ErrorResponse(status, detail, raised) ==
    [status |-> status, detail |-> detail, raised |-> raised,
     top_candidates |-> <<>>, best_match |-> NoCandidate, best_idx |-> 0]

\* A slip: every candidate given the first probability (probs[0]).
Candidates_FirstProb(scored, probs) ==
    [j \in 1..Len(scored) |->
        [species |-> scored[j].species,
         image_similarity |-> scored[j].img_sim,
         text_similarity |-> scored[j].text_sim,
         color_similarity |-> scored[j].color_sim,
         combined_score |-> scored[j].combined,
         probability |-> probs[1]]]

\* Candidate(...) for each scored tuple, with probability=float(probs[j]).
Candidates(scored, probs) ==
    [j \in 1..Len(scored) |->
        [species |-> scored[j].species,
         image_similarity |-> scored[j].img_sim,
         text_similarity |-> scored[j].text_sim,
         color_similarity |-> scored[j].color_sim,
         combined_score |-> scored[j].combined,
         probability |-> probs[j]]]

Scores(scored) == [j \in 1..Len(scored) |-> scored[j].combined]

\* RerankResponse / IdentificationResponse(top_candidates=candidates,
\* best_match=candidates[best_idx]).
SuccessResponse(status, scored) ==
    LET probs == Softmax(Scores(scored))
        candidates == Candidates(scored, probs)
        best_idx == NpArgmax(probs)
    IN  [status |-> status, detail |-> "", raised |-> "",
         top_candidates |-> candidates, best_match |-> candidates[best_idx],
         best_idx |-> best_idx]

\* A float the response model carries that is nan or inf.
HasNonFinite(scored) ==
    LET probs == Softmax(Scores(scored))
    IN  \E j \in 1..Len(scored) :
            \/ ~IsFinite(scored[j].img_sim)
            \/ ~IsFinite(scored[j].text_sim)
            \/ scored[j].color_sim.k \in {"nan", "inf"}
            \/ ~IsFinite(scored[j].combined)
            \/ probs[j].k = "nan"

\* The status the client sees once the handler has returned its response
\* model: JSON has no nan or inf, and the installed serializer either
\* writes them (as null or NaN) or raises, which FastAPI answers with 500.
SerializedStatus(scored) == IF HasNonFinite(scored) THEN {200, 500} ELSE {200}

\* Strings that the code takes apart are sequences of characters.
\* An Optional[str]: None, or a text.
NoneStr == [given |-> FALSE, text |-> <<>>]
Str(text) == [given |-> TRUE, text |-> text]

NoSeedRequest == [authorization |-> NoneStr, version |-> ""]

\* status 0: nothing sent yet.  manifest: the signed URL of each file of
\* the SignedManifest returned, empty in an error response.
NoSeedResponse == [status |-> 0, detail |-> "", manifest |-> <<>>]

\* How a call ended as far as the database side goes: the status sent and
\* the exception behind it.
NoOutcome == [status |-> 0, raised |-> ""]

\* An earlier exchange kept on record: its request, the rows the ranking
\* query gave it, the list of scored candidates it built and its response.
NoEarlier == [request |-> NoRequest, rows |-> <<>>, response |-> NoResponse, scored |-> <<>>]

---------------------------------------------------------------------------
(* The handlers *)

Init ==
    /\ pc = "idle"
    /\ request = NoRequest
    /\ top_candidates = <<>>
    /\ i = 0
    /\ scored_candidates = <<>>
    /\ response = NoResponse
    /\ dbLog = <<>>
    /\ expArgs = <<>>
    /\ colorMissing = {}
    /\ earlier = NoEarlier
    /\ caller = "none"
    /\ held = "none"
    /\ outcome = NoOutcome
    /\ orphans = 0
    /\ strays = 0
    /\ seedPc = "unloaded"
    /\ SEED_API_TOKEN = <<>>
    /\ credentials = FALSE
    /\ seedRequest = NoSeedRequest
    /\ ver = ""
    /\ nameIdx = 0
    /\ missing = <<>>
    /\ signed_map = <<>>
    /\ seedResponse = NoSeedResponse

\* The handler ends with this response (a return or a raise).
Finish(resp) ==
    /\ response' = resp
    /\ pc' = "done"

\* The identifiers of the candidates the exchange on record was about.
EarlierIds ==
    IF earlier.request.kind = "rerank" THEN earlier.request.top_candidates
    ELSE [j \in 1..Len(earlier.response.top_candidates) |->
             earlier.response.top_candidates[j].species]

\* Once an exchange is on record, the requests that follow are about the
\* same candidate set: a rerank of the same identifiers against the same
\* embedding under any weights, or the identification on record again.
Follows(req) ==
    \/ earlier = NoEarlier
    \/ IF req.kind = "rerank"
       THEN req.embedding = earlier.request.embedding /\ req.top_candidates = EarlierIds
       ELSE req = earlier.request

\* The database does not change: the ranking query of a request that
\* follows the identification on record gives the rows it gave then.
SameRanking(rows) == earlier = NoEarlier \/ rows = earlier.rows

(* ---- rerank_with_weights ---- *)

\* A slip: the list of scored candidates outlives the call (a module-level
\* list that is never emptied), so a call starts with what an earlier one
\* left in it.
RerankBegin_Kept ==
    /\ pc = "idle"
    /\ \E req \in RerankRequest : Follows(req) /\ request' = req
    /\ pc' = "rr_loop"
    /\ i' = 1
    /\ scored_candidates' = earlier.scored
    /\ UNCHANGED <<top_candidates, response, dbLog, expArgs, colorMissing, earlier>>
    /\ UNCHANGED <<poolVars, seedVars>>

\* POST /species/rerank-with-weights: session = SessionLocal(),
\* scored_candidates = [].
RerankBegin ==
    /\ pc = "idle"
    /\ \E req \in RerankRequest : Follows(req) /\ request' = req
    /\ pc' = "rr_loop"
    /\ i' = 1
    /\ scored_candidates' = <<>>
    /\ UNCHANGED <<top_candidates, response, dbLog, expArgs, colorMissing, earlier>>
    /\ UNCHANGED <<poolVars, seedVars>>

\* A slip: the image similarity taken against the text embedding.
RerankImgSim_Swapped(embedding, db_row) == cosine_similarity(embedding, db_row.text_embedding)

\* embedding is embedding_np, the request's embedding as float32 (exact
\* for the small integers used here).
RerankImgSim(embedding, db_row) == cosine_similarity(embedding, db_row.image_embedding)

RerankTextSim(embedding, db_row) == cosine_similarity(embedding, db_row.text_embedding)

\* combined = request.image_weight * img_sim + request.text_weight * text_sim
RerankCombined(req, img_sim, text_sim) ==
    FAdd(FMul(req.image_weight, img_sim), FMul(req.text_weight, text_sim))

\* if not db_row or db_row.image_embedding is None or db_row.text_embedding is None
RerankSkips(species_id) ==
    \/ ~HasRow(species_id)
    \/ DbRow(species_id).image_embedding = NoVec
    \/ DbRow(species_id).text_embedding = NoVec

RerankTuple(req, species_id) ==
    LET db_row == DbRow(species_id)
        img_sim == RerankImgSim(req.embedding, db_row)
        text_sim == RerankTextSim(req.embedding, db_row)
    IN  [species |-> db_row.species, img_sim |-> img_sim, text_sim |-> text_sim,
         color_sim |-> NoneVal,
         combined |-> RerankCombined(req, img_sim, text_sim)]

\* One pass of `for species_id in request.top_candidates`.
RerankScore ==
    /\ pc = "rr_loop"
    /\ i <= Len(request.top_candidates)
    /\ LET species_id == request.top_candidates[i]
       IN  /\ dbLog' = Append(dbLog, [q |-> "lookup", species |-> species_id])
           /\ scored_candidates' =
                 IF RerankSkips(species_id) THEN scored_candidates
                 ELSE Append(scored_candidates, RerankTuple(request, species_id))
    /\ i' = i + 1
    /\ UNCHANGED <<earlier, pc, request, top_candidates, response, expArgs, colorMissing>>
    /\ UNCHANGED <<poolVars, seedVars>>

\* session.query(...).first() raises: nothing in the handler catches it.
RerankQueryFails ==
    /\ pc = "rr_loop"
    /\ i <= Len(request.top_candidates)
    /\ dbLog' = Append(dbLog, [q |-> "lookup", species |-> request.top_candidates[i]])
    /\ Finish(ErrorResponse(500, "Internal Server Error", "OperationalError"))
    /\ UNCHANGED <<earlier, request, top_candidates, i, scored_candidates, expArgs, colorMissing>>
    /\ UNCHANGED <<poolVars, seedVars>>

\* After the loop: the 404, or softmax, candidates, best match, response.
RerankFinish ==
    /\ pc = "rr_loop"
    /\ i > Len(request.top_candidates)
    /\ IF scored_candidates = <<>>
       THEN /\ Finish(ErrorResponse(404, "No valid candidates with embeddings found",
                                    "HTTPException404"))
            /\ UNCHANGED expArgs
       ELSE /\ expArgs' = Scores(scored_candidates)
            /\ \E status \in SerializedStatus(scored_candidates) :
                  Finish(IF status = 200
                         THEN SuccessResponse(200, scored_candidates)
                         ELSE ErrorResponse(500, "Internal Server Error", "ValueError"))
    /\ UNCHANGED <<earlier, request, top_candidates, i, scored_candidates, dbLog, colorMissing>>
    /\ UNCHANGED <<poolVars, seedVars>>

(* ---- identify_species ---- *)

\* POST /species/identify-by-embedding.
IdentifyBegin ==
    /\ pc = "idle"
    /\ \E req \in IdentificationRequest : Follows(req) /\ request' = req
    /\ pc' = "id_retrieve"
    /\ i' = 1
    /\ scored_candidates' = <<>>
    /\ UNCHANGED <<top_candidates, response, dbLog, expArgs, colorMissing, earlier>>
    /\ UNCHANGED <<poolVars, seedVars>>

\* `except Exception as e: raise HTTPException(500, f"DB operation failed: {e}")`
\* around the whole `with SessionLocal()` block: it catches every exception
\* raised inside, the block's own HTTPException included.
CaughtInTry(raised) == ErrorResponse(500, "DB operation failed", raised)

\* session.execute(sql, ...).fetchall(); `if not top_candidates: raise
\* HTTPException(404)`; get_image_colors; get_color_vocab.
IdentifyRetrieve ==
    /\ pc = "id_retrieve"
    /\ \E ids \in SeqsUpTo(Retrievable, request.top_n) :
          LET rows == [j \in 1..Len(ids) |-> RankRow(request.embedding, ids[j])]
          IN  /\ SameRanking(rows)
              /\ top_candidates' = rows
              /\ IF rows = <<>>
                 THEN /\ dbLog' = Append(dbLog, [q |-> "rank", species |-> ""])
                      /\ Finish(CaughtInTry("HTTPException404"))
                 ELSE /\ dbLog' = dbLog \o << [q |-> "rank", species |-> ""],
                                             [q |-> "image_colors", species |-> ""],
                                             [q |-> "color_vocab", species |-> ""] >>
                      /\ pc' = "id_loop"
                      /\ UNCHANGED response
    /\ UNCHANGED <<earlier, request, i, scored_candidates, expArgs, colorMissing>>
    /\ UNCHANGED <<poolVars, seedVars>>

\* if not db_row or db_row.text_embedding is None: continue
IdentifySkips(species) ==
    \/ ~HasRow(species)
    \/ DbRow(species).text_embedding = NoVec

\* A slip: negative weights clamped to zero before combining.
IdentifyCombined_Clamped(req, img_sim, text_sim, color_sim) ==
    LET Clamp(w) == IF w.k = "fin" /\ w.v < 0 THEN Fin(0) ELSE w
    IN  FAdd(FAdd(FMul(Clamp(req.image_weight), img_sim),
                  FMul(Clamp(req.text_weight), text_sim)),
             FMul(Clamp(req.color_weight), color_sim))

\* combined = image_weight * img_sim + text_weight * text_sim + color_weight * color_sim
IdentifyCombined(req, img_sim, text_sim, color_sim) ==
    FAdd(FAdd(FMul(req.image_weight, img_sim), FMul(req.text_weight, text_sim)),
         FMul(req.color_weight, color_sim))

IdentifyTuple(req, row, color_sim) ==
    LET db_row == DbRow(row.species)
        img_sim == OneMinus(row.distance)
        text_sim == cosine_similarity(req.embedding, db_row.text_embedding)
    IN  [species |-> row.species, img_sim |-> img_sim, text_sim |-> text_sim,
         color_sim |-> color_sim,
         combined |-> IdentifyCombined(req, img_sim, text_sim, color_sim)]

\* One pass of `for row in top_candidates`.  A color_sim of None makes
\* `request.color_weight * color_sim` raise TypeError, inside the try.
IdentifyScore ==
    /\ pc = "id_loop"
    /\ i <= Len(top_candidates)
    /\ LET row == top_candidates[i]
           lookup == [q |-> "lookup", species |-> row.species]
       IN  IF IdentifySkips(row.species)
           THEN /\ dbLog' = Append(dbLog, lookup)
                /\ i' = i + 1
                /\ UNCHANGED <<pc, response, scored_candidates, colorMissing>>
           ELSE /\ dbLog' = dbLog \o << lookup, [q |-> "species_colors", species |-> row.species] >>
                /\ \E color_sim \in ColorOutcomes :
                      IF color_sim = NoneVal
                      THEN /\ colorMissing' = colorMissing \cup {row.species}
                           /\ Finish(CaughtInTry("TypeError"))
                           /\ UNCHANGED <<i, scored_candidates>>
                      ELSE /\ scored_candidates' =
                                 Append(scored_candidates, IdentifyTuple(request, row, color_sim))
                           /\ i' = i + 1
                           /\ UNCHANGED <<pc, response, colorMissing>>
    /\ UNCHANGED <<earlier, request, top_candidates, expArgs>>
    /\ UNCHANGED <<poolVars, seedVars>>

\* A query inside the `with` block raises: caught by `except Exception`.
IdentifyQueryFails ==
    /\ \/ pc = "id_retrieve"
       \/ pc = "id_loop" /\ i <= Len(top_candidates)
    /\ dbLog' = Append(dbLog, [q |-> "failed", species |-> ""])
    /\ Finish(CaughtInTry("OperationalError"))
    /\ UNCHANGED <<earlier, request, top_candidates, i, scored_candidates, expArgs, colorMissing>>
    /\ UNCHANGED <<poolVars, seedVars>>

\* After the try: the 404, or softmax, candidates, best match, response.
IdentifyFinish ==
    /\ pc = "id_loop"
    /\ i > Len(top_candidates)
    /\ IF scored_candidates = <<>>
       THEN /\ Finish(ErrorResponse(404, "No candidates with valid text embeddings",
                                    "HTTPException404"))
            /\ UNCHANGED expArgs
       ELSE /\ expArgs' = Scores(scored_candidates)
            /\ \E status \in SerializedStatus(scored_candidates) :
                  Finish(IF status = 200
                         THEN SuccessResponse(200, scored_candidates)
                         ELSE ErrorResponse(500, "Internal Server Error", "ValueError"))
    /\ UNCHANGED <<earlier, request, top_candidates, i, scored_candidates, dbLog, colorMissing>>
    /\ UNCHANGED <<poolVars, seedVars>>

\* What is on record of earlier exchanges once this one is over: the
\* first successful exchange may be put on record, and stays.
Noted ==
    IF earlier = NoEarlier
    THEN IF response.status = 200
         THEN {NoEarlier,
               [request |-> request, rows |-> top_candidates, response |-> response,
                scored |-> scored_candidates]}
         ELSE {NoEarlier}
    ELSE {earlier}

\* The response has gone to the client and the handler's locals are
\* dropped; the server waits for the next request.
Deliver ==
    /\ pc = "done"
    /\ pc' = "idle"
    /\ request' = NoRequest
    /\ top_candidates' = <<>>
    /\ i' = 0
    /\ scored_candidates' = <<>>
    /\ response' = NoResponse
    /\ dbLog' = <<>>
    /\ expArgs' = <<>>
    /\ colorMissing' = {}
    /\ earlier' \in Noted
    /\ UNCHANGED <<poolVars, seedVars>>

Next ==
    \/ RerankBegin
    \/ RerankScore
    \/ RerankQueryFails
    \/ RerankFinish
    \/ IdentifyBegin
    \/ IdentifyRetrieve
    \/ IdentifyScore
    \/ IdentifyQueryFails
    \/ IdentifyFinish
    \/ Deliver

Spec == Init /\ [][Next]_vars

---------------------------------------------------------------------------
(* Sessions and connections (db/db.py, app/species_tools.py,               *)
(* app/ecoregion_tools.py, and the two handlers above)                     *)

\* create_engine(..., poolclass=QueuePool, pool_size=5, max_overflow=10)
PoolSize == 5
MaxOverflow == 10
Capacity == PoolSize + MaxOverflow

\* Most psycopg2 connections left open at a time by finished calls.
MaxStrays == 2

PooledHandlers == {"identify_species", "rerank_with_weights", "get_species_by_ecoregion"}
Handlers == PooledHandlers \cup {"get_ecoregion_by_coordinates"}

\* Connections of the pool that are checked out: those of sessions that
\* finished calls left open, and the running call's.
CheckedOut == orphans + (IF held = "pooled" THEN 1 ELSE 0)

Outcome(status, raised) == [status |-> status, raised |-> raised]

Running == caller # "none" /\ outcome = NoOutcome
Finished == caller # "none" /\ outcome # NoOutcome

\* What the handler's session or connection holds when the handler ends.
\* identify_species runs its queries inside `with SessionLocal() as
\* session`, which closes the session on every way out.
\* rerank_with_weights and get_species_by_ecoregion never call
\* session.close().  get_ecoregion_by_coordinates calls conn.close() after
\* the cursor block, which an exception inside the block skips.
AtExit(h, now, raised) ==
    CASE h = "identify_species" -> "closed"
      [] h = "get_ecoregion_by_coordinates" ->
            IF now = "raw" /\ ~raised THEN "closed" ELSE now
      [] OTHER -> now

\* A request arrives.  The three handlers on the pool begin with
\* SessionLocal(): a session that takes a connection at its first query.
PoolCall ==
    /\ caller = "none"
    /\ \E h \in Handlers :
          /\ caller' = h
          /\ held' = IF h \in PooledHandlers THEN "lazy" ELSE "none"
    /\ UNCHANGED <<outcome, orphans, strays, scoreVars, seedVars>>

\* The first query of the call checks a connection out of the pool.
PoolCheckout ==
    /\ Running
    /\ held = "lazy"
    /\ CheckedOut < Capacity
    /\ held' = "pooled"
    /\ UNCHANGED <<caller, outcome, orphans, strays, scoreVars, seedVars>>

\* No connection is free and none may be added: after pool_timeout the
\* query raises sqlalchemy.exc.TimeoutError.
PoolExhausted ==
    /\ Running
    /\ held = "lazy"
    /\ CheckedOut = Capacity
    /\ outcome' = Outcome(500, "TimeoutError")
    /\ held' = AtExit(caller, held, TRUE)
    /\ UNCHANGED <<caller, orphans, strays, scoreVars, seedVars>>

\* rerank_with_weights with an empty top_candidates list makes no query.
PoolNoQuery ==
    /\ Running
    /\ caller = "rerank_with_weights"
    /\ held = "lazy"
    /\ outcome' = Outcome(404, "HTTPException")
    /\ UNCHANGED <<caller, held, orphans, strays, scoreVars, seedVars>>

\* get_db_conn(): psycopg2.connect(db_url), outside the pool.
PoolConnect ==
    /\ Running
    /\ caller = "get_ecoregion_by_coordinates"
    /\ held = "none"
    /\ held' = "raw"
    /\ UNCHANGED <<caller, outcome, orphans, strays, scoreVars, seedVars>>

\* get_db_conn() raises (DATABASE_URL not set, server unreachable).
PoolConnectFails ==
    /\ Running
    /\ caller = "get_ecoregion_by_coordinates"
    /\ held = "none"
    /\ outcome' = Outcome(500, "OperationalError")
    /\ UNCHANGED <<caller, held, orphans, strays, scoreVars, seedVars>>

\* A query raises.
PoolQueryRaises ==
    /\ Running
    /\ held \in {"pooled", "raw"}
    /\ outcome' = Outcome(500, "OperationalError")
    /\ held' = AtExit(caller, held, TRUE)
    /\ UNCHANGED <<caller, orphans, strays, scoreVars, seedVars>>

\* The queries succeed and the handler answers: its result, or the 404
\* for an empty one.
PoolAnswer ==
    /\ Running
    /\ held \in {"pooled", "raw"}
    /\ \E status \in {200, 404} :
          outcome' = Outcome(status, IF status = 200 THEN "" ELSE "HTTPException")
    /\ held' = AtExit(caller, held, FALSE)
    /\ UNCHANGED <<caller, orphans, strays, scoreVars, seedVars>>

\* The response is sent and the handler's frame is gone.  A session still
\* holding a connection, or an open psycopg2 connection, is now referenced
\* by nothing and waits for the garbage collector.
PoolReturn ==
    /\ Finished
    /\ held = "raw" => strays < MaxStrays
    /\ orphans' = orphans + (IF held = "pooled" THEN 1 ELSE 0)
    /\ strays' = strays + (IF held = "raw" THEN 1 ELSE 0)
    /\ caller' = "none"
    /\ held' = "none"
    /\ outcome' = NoOutcome
    /\ UNCHANGED <<scoreVars, seedVars>>

\* The garbage collector finalizes an unreferenced session; its
\* connection goes back to the pool.  When this happens is not up
\* to the program.
CollectSession ==
    /\ orphans > 0
    /\ orphans' = orphans - 1
    /\ UNCHANGED <<caller, held, outcome, strays, scoreVars, seedVars>>

\* The garbage collector finalizes an unreferenced psycopg2 connection,
\* which closes it.
CollectConnection ==
    /\ strays > 0
    /\ strays' = strays - 1
    /\ UNCHANGED <<caller, held, outcome, orphans, scoreVars, seedVars>>

NextPool ==
    \/ PoolCall
    \/ PoolCheckout
    \/ PoolExhausted
    \/ PoolNoQuery
    \/ PoolConnect
    \/ PoolConnectFails
    \/ PoolQueryRaises
    \/ PoolAnswer
    \/ PoolReturn
    \/ CollectSession
    \/ CollectConnection

SpecPool == Init /\ [][NextPool]_vars

---------------------------------------------------------------------------
(* The seed manifest (tools/seed_router.py) *)

REQUIRED_FILES == <<"species.csv.gz", "species_embeddings.parquet", "ecoregions.fgb">>

\* str.lower(), on the letters that occur here.
LowerChar(c) ==
    CASE c = "B" -> "b"
      [] c = "E" -> "e"
      [] c = "A" -> "a"
      [] c = "R" -> "r"
      [] c = "T" -> "t"
      [] OTHER -> c

Lower(text) == [j \in 1..Len(text) |-> LowerChar(text[j])]

\* str.startswith(prefix)
StartsWith(text, prefix) ==
    Len(text) >= Len(prefix) /\ SubSeq(text, 1, Len(prefix)) = prefix

\* The characters str.strip() removes.
Whitespace == {" ", "\t"}

RECURSIVE LStrip(_)
LStrip(text) ==
    IF text # <<>> /\ Head(text) \in Whitespace THEN LStrip(Tail(text)) ELSE text

RECURSIVE RStrip(_)
RStrip(text) ==
    IF text # <<>> /\ text[Len(text)] \in Whitespace
    THEN RStrip(SubSeq(text, 1, Len(text) - 1)) ELSE text

\* str.strip()
Strip(text) == RStrip(LStrip(text))

\* text.split(" ", 1)[1]: what follows the first space (the caller has
\* made sure there is one).
AfterFirstSpace(text) ==
    LET k == CHOOSE j \in 1..Len(text) :
                 text[j] = " " /\ \A h \in 1..(j - 1) : text[h] # " "
    IN  SubSeq(text, k + 1, Len(text))

BearerSpace == <<"b", "e", "a", "r", "e", "r", " ">>

\* not authorization or not authorization.lower().startswith("bearer ")
NotBearer(authorization) ==
    \/ ~authorization.given
    \/ authorization.text = <<>>
    \/ ~StartsWith(Lower(authorization.text), BearerSpace)

\* A slip: the token taken without .strip().
TokenOf_Unstripped(authorization) == AfterFirstSpace(authorization.text)

\* token = authorization.split(" ", 1)[1].strip()
TokenOf(authorization) == Strip(AfterFirstSpace(authorization.text))

\* The token the deployment may configure, and values a client may send.
Token == <<"t", "k">>

Schemes ==
    { <<"B", "e", "a", "r", "e", "r">>, <<"b", "e", "a", "r", "e", "r">>,
      <<"B", "E", "A", "R", "E", "R">>, <<"B", "a", "s", "i", "c">> }

SentTokens == { Token, <<"t", "x">>, <<"t">>, <<"t", "k", "k">>, <<"T", "k">>, <<>> }

Pads == { <<>>, <<" ">>, <<"\t">> }

Authorizations ==
    {NoneStr, Str(<<>>)} \cup {Str(t) : t \in SentTokens} \cup
    { Str(sch \o sep \o before \o t \o after) :
        sch \in Schemes, sep \in Pads, before \in {<<>>, <<" ">>},
        t \in SentTokens, after \in Pads }

\* Version folders (YYYY-MM-DD); "" is an omitted version parameter.
Versions == {"2025-08-10", "2025-09-01"}

SeedError(status, detail) == [status |-> status, detail |-> detail, manifest |-> <<>>]

\* A pre-signed URL for the key.
SignedUrl(version, name) == <<"signed", version, name>>

\* The module is imported: SEED_API_TOKEN, SPACES_KEY and SPACES_SECRET
\* are read from the environment, once.
SeedLoad ==
    /\ seedPc = "unloaded"
    /\ SEED_API_TOKEN' \in {<<>>, Token, Token \o <<" ">>}
    /\ credentials' \in BOOLEAN
    /\ seedPc' = "idle"
    /\ UNCHANGED <<seedRequest, ver, nameIdx, missing, signed_map, seedResponse,
                   scoreVars, poolVars>>

\* GET /manifest arrives.  FastAPI binds require_token's parameter
\* `authorization` (a plain Optional[str]) from the request.
SeedRequest ==
    /\ seedPc = "idle"
    /\ \E a \in Authorizations, v \in Versions \cup {""} :
          seedRequest' = [authorization |-> a, version |-> v]
    /\ seedPc' = "auth"
    /\ UNCHANGED <<SEED_API_TOKEN, credentials, ver, nameIdx, missing, signed_map,
                   seedResponse, scoreVars, poolVars>>

\* The dependency require_token, run before the handler: its
\* HTTPException goes to the client as raised.
RequireToken ==
    /\ seedPc = "auth"
    /\ LET authorization == seedRequest.authorization
       IN  IF SEED_API_TOKEN = <<>>
           THEN seedPc' = "resolve" /\ UNCHANGED seedResponse
           ELSE IF NotBearer(authorization)
           THEN /\ seedResponse' = SeedError(401, "Missing bearer token.")
                /\ seedPc' = "done"
           ELSE IF TokenOf(authorization) # SEED_API_TOKEN
           THEN /\ seedResponse' = SeedError(403, "Invalid token.")
                /\ seedPc' = "done"
           ELSE seedPc' = "resolve" /\ UNCHANGED seedResponse
    /\ UNCHANGED <<SEED_API_TOKEN, credentials, seedRequest, ver, nameIdx, missing,
                   signed_map, scoreVars, poolVars>>

\* s3 = _s3_client(); ver = version or _latest_version(s3).  The
\* HTTPExceptions raised here pass `except HTTPException: raise`; a
\* ClientError from the listing becomes the 502.
SeedResolve ==
    /\ seedPc = "resolve"
    /\ IF ~credentials
       THEN /\ seedResponse' = SeedError(500, "Spaces credentials not configured.")
            /\ seedPc' = "done"
            /\ UNCHANGED <<ver, nameIdx>>
       ELSE IF seedRequest.version # ""
       THEN /\ ver' = seedRequest.version
            /\ nameIdx' = 1
            /\ seedPc' = "files"
            /\ UNCHANGED seedResponse
       ELSE \/ \E latest \in Versions :
                  /\ ver' = latest
                  /\ nameIdx' = 1
                  /\ seedPc' = "files"
                  /\ UNCHANGED seedResponse
            \/ /\ seedResponse' = SeedError(404, "No version folders found in seed prefix.")
               /\ seedPc' = "done"
               /\ UNCHANGED <<ver, nameIdx>>
            \/ /\ seedResponse' = SeedError(502, "Spaces error")
               /\ seedPc' = "done"
               /\ UNCHANGED <<ver, nameIdx>>
    /\ UNCHANGED <<SEED_API_TOKEN, credentials, seedRequest, missing, signed_map,
                   scoreVars, poolVars>>

\* One pass of `for name in REQUIRED_FILES`: _head_size gives the size,
\* or None when head_object raises for any reason.
SeedFile ==
    /\ seedPc = "files"
    /\ nameIdx <= Len(REQUIRED_FILES)
    /\ LET name == REQUIRED_FILES[nameIdx]
       IN  \E found \in BOOLEAN :
              IF ~found
              THEN /\ missing' = Append(missing, name)
                   /\ UNCHANGED signed_map
              ELSE /\ signed_map' = Append(signed_map, [name |-> name, url |-> SignedUrl(ver, name)])
                   /\ UNCHANGED missing
    /\ nameIdx' = nameIdx + 1
    /\ UNCHANGED <<seedPc, SEED_API_TOKEN, credentials, seedRequest, ver, seedResponse,
                   scoreVars, poolVars>>

\* signed_map[name], as the handler reads it building the manifest.
UrlOf(map, name) ==
    LET hits == {j \in 1..Len(map) : map[j].name = name}
    IN  IF hits = {} THEN <<>> ELSE map[CHOOSE j \in hits : TRUE].url

\* After the loop: the 500 for missing files, or the SignedManifest.
SeedFinish ==
    /\ seedPc = "files"
    /\ nameIdx > Len(REQUIRED_FILES)
    /\ seedResponse' =
          IF missing # <<>>
          THEN SeedError(500, "Missing required files in version")
          ELSE [status |-> 200, detail |-> "",
                manifest |-> [j \in 1..Len(REQUIRED_FILES) |->
                                 [name |-> REQUIRED_FILES[j],
                                  url |-> UrlOf(signed_map, REQUIRED_FILES[j])]]]
    /\ seedPc' = "done"
    /\ UNCHANGED <<SEED_API_TOKEN, credentials, seedRequest, ver, nameIdx, missing,
                   signed_map, scoreVars, poolVars>>

\* The response has gone to the client; the call's locals are dropped.
SeedDeliver ==
    /\ seedPc = "done"
    /\ seedPc' = "idle"
    /\ seedRequest' = NoSeedRequest
    /\ ver' = ""
    /\ nameIdx' = 0
    /\ missing' = <<>>
    /\ signed_map' = <<>>
    /\ seedResponse' = NoSeedResponse
    /\ UNCHANGED <<SEED_API_TOKEN, credentials, scoreVars, poolVars>>

NextSeed ==
    \/ SeedLoad
    \/ SeedRequest
    \/ RequireToken
    \/ SeedResolve
    \/ SeedFile
    \/ SeedFinish
    \/ SeedDeliver

SpecSeed == Init /\ [][NextSeed]_vars

---------------------------------------------------------------------------
(* Properties *)

Done == pc = "done"
Success == Done /\ response.status = 200
Returned == response.top_candidates
ReturnedIdx == 1..Len(response.top_candidates)

NothingToScore == Done /\ response.raised = "HTTPException404"

\* C2: whenever there are zero candidates to score (no rows retrieved, an
\* empty list supplied, or every candidate dropped), the request ends
\* with a 404, never with a 5xx or a success.
C2_ZeroCandidatesGive404 ==
    NothingToScore => response.status = 404

\* The weighted sum of a returned candidate, written out from the
\* request's weights; the color term is 0 when no color weight is given.
WeightedSum(req, c) ==
    LET color_term == IF req.color_weight \in {NoneVal, Fin(0)} THEN Fin(0)
                      ELSE FMul(req.color_weight, c.color_similarity)
    IN  FAdd(FAdd(FMul(req.image_weight, c.image_similarity),
                  FMul(req.text_weight, c.text_similarity)),
             color_term)

\* C3: in every successful response each candidate's combined_score is
\* image_weight * image_similarity + text_weight * text_similarity +
\* color_weight * color_similarity with the request's weights as given
\* (zero and negative ones included), and no request is turned away for
\* its weights (no 400 or 422).
C3_CombinedScoreIsWeightedSum ==
    /\ Success => \A j \in ReturnedIdx :
                     Returned[j].combined_score = WeightedSum(request, Returned[j])
    /\ response.status \notin {400, 422}

C3_Witness ==
    /\ Success
    /\ request.kind = "identify"
    /\ request.image_weight = Fin(-600)
    /\ Len(Returned) = 2
    /\ Returned[1].combined_score = Fin(-340)

IsRatio(p) == p.k = "ratio"

\* A successful response over a valid candidate set: every raw
\* similarity is a finite number.
ValidSuccess ==
    /\ Success
    /\ \A j \in ReturnedIdx :
          /\ IsFinite(Returned[j].image_similarity)
          /\ IsFinite(Returned[j].text_similarity)
          /\ Returned[j].color_similarity.k \in {"fin", "none"}

\* The probabilities add up to 1.0 within 1e-6: none is nan, and the
\* quotients e^v / (e^d[1] + ...) have every term of their common
\* denominator as a numerator, but for terms too small to register.
SumsToOne(cands) ==
    LET ps == [j \in 1..Len(cands) |-> cands[j].probability]
        rs == SelectSeq(ps, IsRatio)
    IN  /\ \A j \in 1..Len(ps) : ps[j].k # "nan"
        /\ rs # <<>>
        /\ LET D == rs[1].d
               Registers(x) == x - MaxOf(D) >= ExpMinArg
           IN  /\ \A j \in 1..Len(rs) : rs[j].d = D
               /\ [j \in 1..Len(rs) |-> rs[j].v] = SelectSeq(D, Registers)

\* C5: in every successful response (over finite similarities, for all
\* weights) the probabilities sum to 1.0 within 1e-6 and each lies in
\* (0, 1].
C5_ProbabilitiesSumToOne ==
    ValidSuccess => /\ SumsToOne(Returned)
               /\ \A j \in ReturnedIdx : IsRatio(Returned[j].probability)

\* The quotient e^v / e^v.
IsOne(p) == p.k = "ratio" /\ p.d = <<p.v>>

\* C6: when exactly one candidate is scored its probability is exactly
\* 1.0, whatever the weights and the combined score.
C6_SingleCandidateProbabilityOne ==
    (ValidSuccess /\ Len(Returned) = 1) => IsOne(Returned[1].probability)

\* C7: best_match is one of the returned candidates and no returned
\* candidate has a strictly greater combined score; so for (img 0.9,
\* text 0.5), (img 0.5, text 0.9) the weights (0.6, 0.4) select the first
\* and (0, 1) the second.
C7_BestMatchHasMaximalScore ==
    ValidSuccess =>
        /\ \E j \in ReturnedIdx : Returned[j] = response.best_match
        /\ \A j \in ReturnedIdx :
              ~FGreater(Returned[j].combined_score, response.best_match.combined_score)
        /\ ( /\ Len(Returned) = 2
             /\ Returned[1].image_similarity = Fin(900)
             /\ Returned[1].text_similarity = Fin(500)
             /\ Returned[2].image_similarity = Fin(500)
             /\ Returned[2].text_similarity = Fin(900)
             /\ request.color_weight \in {NoneVal, Fin(0)} ) =>
               /\ (request.image_weight = Fin(600) /\ request.text_weight = Fin(400))
                     => response.best_idx = 1
               /\ (request.image_weight = Fin(0) /\ request.text_weight = Fin(1000))
                     => response.best_idx = 2

\* C8: best_match is the candidate at the first index attaining the
\* maximum probability: no candidate has a greater probability, and no
\* earlier candidate has the same probability.
C8_TiesGoToFirst ==
    Success =>
        /\ response.best_idx \in ReturnedIdx
        /\ response.best_match = Returned[response.best_idx]
        /\ \A j \in ReturnedIdx :
              ~PLess(response.best_match.probability, Returned[j].probability)
        /\ \A j \in 1..(response.best_idx - 1) :
              Returned[j].probability # response.best_match.probability

C8_Witness ==
    /\ Success
    /\ request.image_weight = Fin(0)
    /\ request.text_weight = Fin(0)
    /\ request.color_weight \in {NoneVal, Fin(0)}
    /\ Len(Returned) = 2
    /\ Returned[1].species # Returned[2].species
    /\ Returned[1].probability = Returned[2].probability
    /\ IsRatio(Returned[1].probability)
    /\ response.best_idx = 1

\* C9: a non-finite similarity is rejected with a client error before
\* any combined score is computed: no scored tuple is built from one,
\* and no response carries a score, probability or best match derived
\* from one.
C9_NonFiniteSimilarityRejected ==
    /\ \A j \in 1..Len(scored_candidates) :
          IsFinite(scored_candidates[j].img_sim) /\ IsFinite(scored_candidates[j].text_sim)
    /\ \A j \in ReturnedIdx :
          IsFinite(Returned[j].image_similarity) /\ IsFinite(Returned[j].text_similarity)

\* C10: every argument passed to the exponential is <= 0 (the maximum
\* combined score has been subtracted), so no exponential overflows and
\* no probability of a successful response is nan.
C10_ExpArgumentsNonPositive ==
    /\ \A j \in 1..Len(expArgs) : expArgs[j].k = "fin" => expArgs[j].v <= 0
    /\ ValidSuccess => \A j \in ReturnedIdx : Returned[j].probability.k # "nan"

\* C11: a request ends either with a success response that carries every
\* scored candidate, each with the combined score of this request's
\* weights and the probability of that score among the scores of all of
\* them, or with an error response that carries no candidate at all.
C11_AllOrNothing ==
    Done =>
        \/ /\ response.status = 200
           /\ Returned # <<>>
           /\ Len(Returned) = Len(scored_candidates)
           /\ \A j \in ReturnedIdx :
                 /\ Returned[j].species = scored_candidates[j].species
                 /\ Returned[j].combined_score = WeightedSum(request, Returned[j])
                 /\ Returned[j].probability =
                       Softmax([h \in ReturnedIdx |-> WeightedSum(request, Returned[h])])[j]
           /\ response.best_match = Returned[response.best_idx]
        \/ /\ response.status \in {404, 500}
           /\ Returned = <<>>
           /\ response.best_match = NoCandidate

C11_Witness ==
    /\ Success
    /\ request.kind = "identify"
    /\ request.color_weight = Fin(300)
    /\ Len(Returned) = 2
    /\ Returned[1].probability # Returned[2].probability
    /\ Returned[2].color_similarity = Fin(Scale)

\* Both embeddings of the identifier's row are stored.
HasBothEmbeddings(s) ==
    /\ HasRow(s)
    /\ DbRow(s).image_embedding # NoVec
    /\ DbRow(s).text_embedding # NoVec

Repeated ==
    /\ Success
    /\ earlier # NoEarlier
    /\ request = earlier.request
    /\ top_candidates = earlier.rows
    /\ request.kind = "identify" =>
          [j \in ReturnedIdx |-> Returned[j].color_similarity] =
             [j \in 1..Len(earlier.response.top_candidates) |->
                 earlier.response.top_candidates[j].color_similarity]

C13_HandlersCloseWhatTheyOpen ==
    /\ Finished => held \in {"none", "lazy", "closed"}
    /\ orphans = 0
    /\ strays = 0
    /\ outcome.raised # "TimeoutError"

SeedDone == seedPc = "done"
Protected == SEED_API_TOKEN # <<>>

\* The value is the word "bearer" in any letter case, then a space.
BearerValue(a) ==
    /\ a.given
    /\ Len(a.text) >= 7
    /\ Lower(SubSeq(a.text, 1, 6)) = <<"b", "e", "a", "r", "e", "r">>
    /\ a.text[7] = " "

AllWhitespace(text) == \A j \in 1..Len(text) : text[j] \in Whitespace

\* What follows "bearer " is the token, with nothing but whitespace
\* before and after it.
CarriesToken(a, token) ==
    /\ BearerValue(a)
    /\ token # <<>>
    /\ token[1] \notin Whitespace
    /\ token[Len(token)] \notin Whitespace
    /\ \E from \in 8..(Len(a.text) + 1) :
          /\ AllWhitespace(SubSeq(a.text, 8, from - 1))
          /\ from + Len(token) - 1 <= Len(a.text)
          /\ SubSeq(a.text, from, from + Len(token) - 1) = token
          /\ AllWhitespace(SubSeq(a.text, from + Len(token), Len(a.text)))

\* The manifest has the signed URL of each of the three required files,
\* all of the version served.
CompleteManifest ==
    /\ Len(seedResponse.manifest) = 3
    /\ \A j \in 1..3 :
          /\ seedResponse.manifest[j].name = REQUIRED_FILES[j]
          /\ seedResponse.manifest[j].url = SignedUrl(ver, REQUIRED_FILES[j])

====
